---- MODULE Spec2Model ----
\* SuccinctVec (src/src/lib.rs): a resizable array made of data blocks that are
\* grouped in virtual superblocks, after Brodnik, Carlsson, Demaine, Munro and
\* Sedgewick.  The model keeps the fields of the struct, the std Vec operations
\* the methods call on each data block, and a reference Vec driven by the same
\* calls (as tests/basic.rs does).
EXTENDS Integers, Sequences, FiniteSets, TLC

\* ---------------------------------------------------------------- bounds
\* largest length the driven calls let the container reach
MaxLen == 8
\* largest length reached when only the shape of the container is followed
MaxShapeLen == 32
\* largest length reached once the container may be cloned
MaxCloneLen == 4
\* largest length reached when out-of-range indices are among the calls
MaxOobLen == 3
\* largest length reached when swap_replace is among the calls
MaxSwapLen == 4
\* the largest len() in the runs of alternating push and pop
MaxChurnLen == 20
\* width in bits of the unsigned word (usize) of the modelled build
UsizeBits == 8

\* the element values the calls are driven with
Values == {0, 1}

VARIABLES
    data_blocks,        \* Vec<Vec<T>>: the data blocks, in storage order
    len,                \* number of elements
    s_odd,              \* parity flag of the superblock count
    len_last_super,     \* data blocks in the last superblock
    cap_last_super,     \* data blocks the last superblock may hold
    empty_data_block,   \* Option<Vec<T>>: <<>> is None, <<v>> is Some(v)
    vec,                \* the reference Vec of the tests
    op,                 \* the last call: [name, index, value]
    ret,                \* what the last call returned: <<>> is None or ()
    vec_ret,            \* what the reference returned for the same call
    allocated,          \* data blocks the last call allocated
    freed,              \* data blocks the last call dropped
    panicked,           \* the last call panicked
    copy,               \* <<>> or <<c>>: the container obtained by clone()
    overflow_checks,    \* the build panics on usize overflow (debug profile)
    churn               \* allocations and drops of the current run of
                        \* alternating pop and push calls

vars == <<data_blocks, len, s_odd, len_last_super, cap_last_super,
          empty_data_block, vec, op, ret, vec_ret, allocated, freed,
          panicked, copy, overflow_checks, churn>>

\* ---------------------------------------------------------------- helpers
Max(a, b) == IF a >= b THEN a ELSE b

Last(s) == s[Len(s)]

Front(s) == SubSeq(s, 1, Len(s) - 1)

RECURSIVE Pow2(_)
Pow2(n) == IF n <= 0 THEN 1 ELSE 2 * Pow2(n - 1)

\* ---------------------------------------------------------------- std Vec
\* A Vec<T> is [id, cap, elems]: id names its heap buffer, cap is capacity(),
\* elems the occupied slots.

VecWithCapacity(id, cap) == [id |-> id, cap |-> cap, elems |-> <<>>]

\* capacity after reserve(1) on a full Vec (amortized growth of RawVec)
VecGrownCap(v) ==
    IF Len(v.elems) < v.cap THEN v.cap
    ELSE Max(Max(2 * v.cap, Len(v.elems) + 1), 4)

VecPush(v, x) ==
    [v EXCEPT !.cap = VecGrownCap(v), !.elems = Append(v.elems, x)]

\* the Vec after pop() on a non-empty Vec; the popped value is Last(v.elems)
VecPop(v) == [v EXCEPT !.elems = Front(v.elems)]

\* insert(i, x) with 0-based i <= len
VecInsert(v, i, x) ==
    [v EXCEPT !.cap = VecGrownCap(v),
              !.elems = SubSeq(v.elems, 1, i) \o <<x>>
                        \o SubSeq(v.elems, i + 1, Len(v.elems))]

\* the Vec after remove(i) with 0-based i < len; the value is v.elems[i + 1]
VecRemove(v, i) ==
    [v EXCEPT !.elems = SubSeq(v.elems, 1, i)
                        \o SubSeq(v.elems, i + 2, Len(v.elems))]

\* the Vec after swap_remove(i) with 0-based i < len: the last element takes
\* the place of the removed one
VecSwapRemove(v, i) ==
    [v EXCEPT !.elems =
        IF i + 1 = Len(v.elems) THEN Front(v.elems)
        ELSE [Front(v.elems) EXCEPT ![i + 1] = Last(v.elems)]]

\* Vec::clone copies the elements into a buffer of exactly len slots
VecClone(v) == [id |-> v.id, cap |-> Len(v.elems), elems |-> v.elems]

\* ---------------------------------------------------------------- locate
\* position of the leading 1 bit of m >= 1
RECURSIVE HighBit(_)
HighBit(m) == IF m <= 1 THEN 0 ELSE 1 + HighBit(m \div 2)

\* bitwise and of two naturals
RECURSIVE BitAnd(_, _)
BitAnd(x, y) ==
    IF x = 0 \/ y = 0 THEN 0
    ELSE (x % 2) * (y % 2) + 2 * BitAnd(x \div 2, y \div 2)

\* usize arithmetic is modulo 2^UsizeBits
UsizeModulus == Pow2(UsizeBits)

\* a result as a build without overflow checks keeps it
Wrap(x) == x % UsizeModulus

\* usize::leading_zeros
leading_zeros(m) == IF m = 0 THEN UsizeBits ELSE UsizeBits - 1 - HighBit(m)

\* x << n and x >> n; without overflow checks the shift amount is masked
Shl(x, n) == Wrap(x * Pow2(n % UsizeBits))

Shr(x, n) == x \div Pow2(n % UsizeBits)

\* !x
BitNot(x) == UsizeModulus - 1 - x

\* locate with the paper's count 2^k - 1 of the data blocks before SB[k]
locate_paper(index) ==
    LET m == Wrap(index + 1)
        k == Wrap(UsizeBits - leading_zeros(m) - 1)
        l == Wrap(k + 1) \div 2
        b == Shr(BitAnd(m, BitNot(Shl(1, k))), l)
        e == BitAnd(m, Wrap(Shl(1, l) - 1))
        p == Wrap(Shl(1, k) - 1)
    IN  <<Wrap(p + b), e>>

\* locate that takes floor(k/2) for l where the code takes ceil(k/2)
locate_floor(index) ==
    LET m == Wrap(index + 1)
        k == Wrap(UsizeBits - leading_zeros(m) - 1)
        l == k \div 2
        b == Shr(BitAnd(m, BitNot(Shl(1, k))), l)
        e == BitAnd(m, Wrap(Shl(1, l) - 1))
        p == Wrap(Wrap(2 * Wrap(Shl(1, l) - 1))
                  - Wrap((k % 2) * (Shl(1, l) \div 2)))
    IN  <<Wrap(p + b), e>>

\* locate(index) -> (block id, offset), both 0-based, every step in usize
\* arithmetic
locate(index) ==
    LET m == Wrap(index + 1)
        k == Wrap(UsizeBits - leading_zeros(m) - 1)
        l == Wrap(k + 1) \div 2
        b == Shr(BitAnd(m, BitNot(Shl(1, k))), l)
        e == BitAnd(m, Wrap(Shl(1, l) - 1))
        p == Wrap(Wrap(2 * Wrap(Shl(1, l) - 1))
                  - Wrap((k % 2) * (Shl(1, l) \div 2)))
    IN  <<Wrap(p + b), e>>

\* TRUE iff a step of locate(index) leaves the range of usize: the build with
\* overflow checks panics there
locate_overflows(index) ==
    LET m == Wrap(index + 1)
        k == Wrap(UsizeBits - leading_zeros(m) - 1)
        l == Wrap(k + 1) \div 2
        b == Shr(BitAnd(m, BitNot(Shl(1, k))), l)
        one_l == Shl(1, l)
        p1 == 2 * Wrap(one_l - 1)
        p2 == (k % 2) * (one_l \div 2)
    IN  \/ index + 1 >= UsizeModulus
        \/ UsizeBits - leading_zeros(m) - 1 < 0
        \/ k + 1 >= UsizeModulus
        \/ k >= UsizeBits
        \/ l >= UsizeBits
        \/ one_l - 1 < 0
        \/ p1 >= UsizeModulus
        \/ p2 >= UsizeModulus
        \/ Wrap(p1) - Wrap(p2) < 0
        \/ Wrap(Wrap(p1) - Wrap(p2)) + b >= UsizeModulus

\* a call that uses locate(index) panics before it touches the container
LocatePanics(index) == overflow_checks /\ locate_overflows(index)

\* ---------------------------------------------------------------- SuccinctVec
\* A call works on a record of the struct's fields plus what the call has
\* returned, allocated, dropped so far and whether it has panicked.

self ==
    [data_blocks |-> data_blocks, len |-> len, s_odd |-> s_odd,
     len_last_super |-> len_last_super, cap_last_super |-> cap_last_super,
     empty_data_block |-> empty_data_block,
     ret |-> <<>>, allocated |-> <<>>, freed |-> <<>>, panicked |-> FALSE]

Default ==
    [data_blocks |-> <<>>, len |-> 0, s_odd |-> TRUE,
     len_last_super |-> 0, cap_last_super |-> 1,
     empty_data_block |-> << VecWithCapacity(0, 1) >>,
     ret |-> <<>>, allocated |-> <<>>, freed |-> <<>>, panicked |-> FALSE]

Panic(s) == [s EXCEPT !.panicked = TRUE]

\* the heap buffers a container owns
LiveIds(s) ==
    { s.data_blocks[i].id : i \in 1 .. Len(s.data_blocks) }
    \cup { s.empty_data_block[i].id : i \in 1 .. Len(s.empty_data_block) }

\* the allocator hands out the first buffer name that is not in use
NewId(s) == CHOOSE i \in 0 .. (Cardinality(LiveIds(s))) : i \notin LiveIds(s)

len_of(s) == s.len

is_empty(s) == s.len = 0

capacity(s) ==
    0 + (IF s.empty_data_block = <<>> THEN 0
         ELSE Len(s.empty_data_block[1].elems))
      + (IF s.data_blocks = <<>> THEN 0
         ELSE s.len - Len(Last(s.data_blocks).elems) + Last(s.data_blocks).cap)

\* grow that doubles the block capacity whenever the last block is full, as
\* a Vec doubles its buffer
grow_doubling(s0) ==
    LET s == [s0 EXCEPT !.len = s0.len + 1] IN
    IF s.data_blocks = <<>> THEN
        LET s1 == [s EXCEPT !.len_last_super = s.len_last_super + 1,
                            !.cap_last_super = 1,
                            !.s_odd = TRUE]
        IN  IF s1.empty_data_block = <<>> THEN Panic(s1)
            ELSE [s1 EXCEPT !.data_blocks = << s1.empty_data_block[1] >>,
                            !.empty_data_block = <<>>]
    ELSE IF Last(s.data_blocks).cap = Len(Last(s.data_blocks).elems) THEN
        LET cap0 == Last(s.data_blocks).cap
            full == s.len_last_super = s.cap_last_super
            odd  == IF full THEN ~s.s_odd ELSE s.s_odd
            cap  == cap0 * 2
            lls  == (IF full THEN 0 ELSE s.len_last_super) + 1
            s1   == [s EXCEPT !.s_odd = odd, !.len_last_super = lls]
        IN  IF s1.empty_data_block # <<>> THEN
                [s1 EXCEPT !.data_blocks =
                               Append(s1.data_blocks, s1.empty_data_block[1]),
                           !.empty_data_block = <<>>]
            ELSE
                LET new == VecWithCapacity(NewId(s1), cap) IN
                [s1 EXCEPT !.data_blocks = Append(s1.data_blocks, new),
                           !.allocated = Append(s1.allocated, new)]
    ELSE s

\* the capacity grow() gives to a data block it allocates behind a full last
\* block
next_block_cap(s) ==
    IF s.len_last_super = s.cap_last_super /\ s.s_odd
    THEN Last(s.data_blocks).cap * 2
    ELSE Last(s.data_blocks).cap

\* grow that doubles the block capacity where the code doubles the number of
\* blocks of the superblock, and the other way round
grow_swapped(s0) ==
    LET s == [s0 EXCEPT !.len = s0.len + 1] IN
    IF s.data_blocks = <<>> THEN
        LET s1 == [s EXCEPT !.len_last_super = s.len_last_super + 1,
                            !.cap_last_super = 1,
                            !.s_odd = TRUE]
        IN  IF s1.empty_data_block = <<>> THEN Panic(s1)
            ELSE [s1 EXCEPT !.data_blocks = << s1.empty_data_block[1] >>,
                            !.empty_data_block = <<>>]
    ELSE IF Last(s.data_blocks).cap = Len(Last(s.data_blocks).elems) THEN
        LET cap0 == Last(s.data_blocks).cap
            full == s.len_last_super = s.cap_last_super
            odd  == IF full THEN ~s.s_odd ELSE s.s_odd
            cls  == IF full /\ ~odd THEN s.cap_last_super * 2
                    ELSE s.cap_last_super
            cap  == IF full /\ odd THEN cap0 * 2 ELSE cap0
            lls  == (IF full THEN 0 ELSE s.len_last_super) + 1
            s1   == [s EXCEPT !.s_odd = odd, !.cap_last_super = cls,
                              !.len_last_super = lls]
        IN  IF s1.empty_data_block # <<>> THEN
                [s1 EXCEPT !.data_blocks =
                               Append(s1.data_blocks, s1.empty_data_block[1]),
                           !.empty_data_block = <<>>]
            ELSE
                LET new == VecWithCapacity(NewId(s1), cap) IN
                [s1 EXCEPT !.data_blocks = Append(s1.data_blocks, new),
                           !.allocated = Append(s1.allocated, new)]
    ELSE s

\* grow that never takes the spare: a full last block always gets a newly
\* allocated block
grow_no_reuse(s0) ==
    LET s == [s0 EXCEPT !.len = s0.len + 1] IN
    IF s.data_blocks = <<>> THEN
        LET s1 == [s EXCEPT !.len_last_super = s.len_last_super + 1,
                            !.cap_last_super = 1,
                            !.s_odd = TRUE]
        IN  IF s1.empty_data_block = <<>> THEN Panic(s1)
            ELSE [s1 EXCEPT !.data_blocks = << s1.empty_data_block[1] >>,
                            !.empty_data_block = <<>>]
    ELSE IF Last(s.data_blocks).cap = Len(Last(s.data_blocks).elems) THEN
        LET cap0 == Last(s.data_blocks).cap
            full == s.len_last_super = s.cap_last_super
            odd  == IF full THEN ~s.s_odd ELSE s.s_odd
            cls  == IF full /\ odd THEN s.cap_last_super * 2
                    ELSE s.cap_last_super
            cap  == IF full /\ ~odd THEN cap0 * 2 ELSE cap0
            lls  == (IF full THEN 0 ELSE s.len_last_super) + 1
            s1   == [s EXCEPT !.s_odd = odd, !.cap_last_super = cls,
                              !.len_last_super = lls]
            new  == VecWithCapacity(NewId(s1), cap)
        IN  [s1 EXCEPT !.data_blocks = Append(s1.data_blocks, new),
                       !.allocated = Append(s1.allocated, new)]
    ELSE s

grow(s0) ==
    LET s == [s0 EXCEPT !.len = s0.len + 1] IN
    IF s.data_blocks = <<>> THEN
        LET s1 == [s EXCEPT !.len_last_super = s.len_last_super + 1,
                            !.cap_last_super = 1,
                            !.s_odd = TRUE]
        IN  IF s1.empty_data_block = <<>> THEN Panic(s1)
            ELSE [s1 EXCEPT !.data_blocks = << s1.empty_data_block[1] >>,
                            !.empty_data_block = <<>>]
    ELSE IF Last(s.data_blocks).cap = Len(Last(s.data_blocks).elems) THEN
        LET cap0 == Last(s.data_blocks).cap
            full == s.len_last_super = s.cap_last_super
            odd  == IF full THEN ~s.s_odd ELSE s.s_odd
            cls  == IF full /\ odd THEN s.cap_last_super * 2
                    ELSE s.cap_last_super
            cap  == IF full /\ ~odd THEN cap0 * 2 ELSE cap0
            lls  == (IF full THEN 0 ELSE s.len_last_super) + 1
            s1   == [s EXCEPT !.s_odd = odd, !.cap_last_super = cls,
                              !.len_last_super = lls]
        IN  IF s1.empty_data_block # <<>> THEN
                [s1 EXCEPT !.data_blocks =
                               Append(s1.data_blocks, s1.empty_data_block[1]),
                           !.empty_data_block = <<>>]
            ELSE
                LET new == VecWithCapacity(NewId(s1), cap) IN
                [s1 EXCEPT !.data_blocks = Append(s1.data_blocks, new),
                           !.allocated = Append(s1.allocated, new)]
    ELSE s

\* shrink that leaves len as it is
shrink_keeps_len(s) ==
    IF s.data_blocks = <<>> THEN Panic(s)
    ELSE IF Last(s.data_blocks).elems = <<>> THEN
        [s EXCEPT !.empty_data_block = << Last(s.data_blocks) >>,
                  !.freed = s.freed \o s.empty_data_block,
                  !.data_blocks = Front(s.data_blocks)]
    ELSE s

\* shrink that keeps the spare it already holds and drops the emptied block
shrink_keeps_spare(s) ==
    IF s.data_blocks = <<>> THEN Panic(s)
    ELSE
        LET s1 ==
                IF Last(s.data_blocks).elems = <<>> THEN
                    LET lls == s.len_last_super - 1
                        keep == s.empty_data_block # <<>>
                        t == [s EXCEPT
                                !.empty_data_block =
                                    IF keep THEN s.empty_data_block
                                    ELSE << Last(s.data_blocks) >>,
                                !.freed =
                                    IF keep
                                    THEN Append(s.freed, Last(s.data_blocks))
                                    ELSE s.freed,
                                !.data_blocks = Front(s.data_blocks),
                                !.len_last_super = lls]
                    IN  IF lls < 0 THEN Panic(t)
                        ELSE IF lls = 0 THEN
                            LET odd == ~t.s_odd
                                cls == IF ~odd THEN t.cap_last_super \div 2
                                       ELSE t.cap_last_super
                            IN  [t EXCEPT !.s_odd = odd,
                                          !.cap_last_super = cls,
                                          !.len_last_super = cls]
                        ELSE t
                ELSE s
        IN  IF s1.panicked THEN s1
            ELSE IF s1.len = 0 THEN Panic(s1)
            ELSE [s1 EXCEPT !.len = s1.len - 1]

\* shrink that does not flip the parity flag when a superblock is left
shrink_no_flip(s) ==
    IF s.data_blocks = <<>> THEN Panic(s)
    ELSE
        LET s1 ==
                IF Last(s.data_blocks).elems = <<>> THEN
                    LET lls == s.len_last_super - 1
                        t == [s EXCEPT
                                !.empty_data_block = << Last(s.data_blocks) >>,
                                !.freed = s.freed \o s.empty_data_block,
                                !.data_blocks = Front(s.data_blocks),
                                !.len_last_super = lls]
                    IN  IF lls < 0 THEN Panic(t)
                        ELSE IF lls = 0 THEN
                            LET cls == IF ~t.s_odd THEN t.cap_last_super \div 2
                                       ELSE t.cap_last_super
                            IN  [t EXCEPT !.cap_last_super = cls,
                                          !.len_last_super = cls]
                        ELSE t
                ELSE s
        IN  IF s1.panicked THEN s1
            ELSE IF s1.len = 0 THEN Panic(s1)
            ELSE [s1 EXCEPT !.len = s1.len - 1]

\* shrink that leaves the emptied block at the end of the block list
shrink_no_retire(s) ==
    IF s.data_blocks = <<>> THEN Panic(s)
    ELSE IF s.len = 0 THEN Panic(s)
    ELSE [s EXCEPT !.len = s.len - 1]

shrink(s) ==
    IF s.data_blocks = <<>> THEN Panic(s)
    ELSE
        LET s1 ==
                IF Last(s.data_blocks).elems = <<>> THEN
                    LET lls == s.len_last_super - 1
                        t == [s EXCEPT
                                !.empty_data_block = << Last(s.data_blocks) >>,
                                !.freed = s.freed \o s.empty_data_block,
                                !.data_blocks = Front(s.data_blocks),
                                !.len_last_super = lls]
                    IN  IF lls < 0 THEN Panic(t)
                        ELSE IF lls = 0 THEN
                            LET odd == ~t.s_odd
                                cls == IF ~odd THEN t.cap_last_super \div 2
                                       ELSE t.cap_last_super
                            IN  [t EXCEPT !.s_odd = odd,
                                          !.cap_last_super = cls,
                                          !.len_last_super = cls]
                        ELSE t
                ELSE s
        IN  IF s1.panicked THEN s1
            ELSE IF s1.len = 0 THEN Panic(s1)
            ELSE [s1 EXCEPT !.len = s1.len - 1]

push(s0, value) ==
    LET s == grow(s0) IN
    IF s.panicked THEN s
    ELSE [s EXCEPT !.data_blocks[Len(s.data_blocks)] =
                        VecPush(Last(s.data_blocks), value)]

pop(s) ==
    IF is_empty(s) THEN [s EXCEPT !.ret = <<>>]
    ELSE IF s.data_blocks = <<>> THEN Panic(s)
    ELSE
        LET last == Last(s.data_blocks)
            result == IF last.elems = <<>> THEN <<>> ELSE << Last(last.elems) >>
            s1 == IF last.elems = <<>> THEN s
                  ELSE [s EXCEPT !.data_blocks[Len(s.data_blocks)] =
                                      VecPop(last)]
        IN  [shrink(s1) EXCEPT !.ret = result]

\* last(): the last element of the last data block, <<>> for None
last_of(s) ==
    IF s.data_blocks = <<>> THEN <<>>
    ELSE IF Last(s.data_blocks).elems = <<>> THEN <<>>
    ELSE << Last(Last(s.data_blocks).elems) >>

\* iter(): the blocks' elements, concatenated in storage order
RECURSIVE Concat(_)
Concat(blocks) ==
    IF blocks = <<>> THEN <<>>
    ELSE Concat(Front(blocks)) \o Last(blocks).elems

iter(s) == Concat(s.data_blocks)

\* into_iter(): the blocks, consumed in storage order, each yielding its
\* elements in order
into_iter(s) == Concat(s.data_blocks)

\* the occupied length of every data block, in storage order
Occupancies(s) ==
    [i \in 1 .. Len(s.data_blocks) |-> Len(s.data_blocks[i].elems)]

\* the loop of insert stopping one block short of a + 1
RECURSIVE insert_cascade_short(_, _, _)
insert_cascade_short(s, data_block, a) ==
    IF data_block <= a + 1 \/ s.panicked THEN s
    ELSE IF s.data_blocks[data_block].elems = <<>> THEN Panic(s)
    ELSE
        LET elem_to_move == Last(s.data_blocks[data_block].elems) IN
        insert_cascade_short(
            [s EXCEPT !.data_blocks[data_block] = VecPop(@),
                      !.data_blocks[data_block + 1] =
                          VecInsert(@, 0, elem_to_move)],
            data_block - 1, a)

\* the loop of insert run front to back: data_block runs from a + 1 up to the
\* last block
RECURSIVE insert_cascade_up(_, _, _)
insert_cascade_up(s, data_block, top) ==
    IF data_block > top \/ s.panicked THEN s
    ELSE IF s.data_blocks[data_block].elems = <<>> THEN Panic(s)
    ELSE
        LET elem_to_move == Last(s.data_blocks[data_block].elems) IN
        insert_cascade_up(
            [s EXCEPT !.data_blocks[data_block] = VecPop(@),
                      !.data_blocks[data_block + 1] =
                          VecInsert(@, 0, elem_to_move)],
            data_block + 1, top)

insert_cascade_forward(s, data_block, a) ==
    insert_cascade_up(s, a + 1, data_block)

\* the back-to-front loop of insert: data_block runs from the last block down
\* to a + 1 and moves the last element of the block before it to its front
RECURSIVE insert_cascade(_, _, _)
insert_cascade(s, data_block, a) ==
    IF data_block <= a \/ s.panicked THEN s
    ELSE IF s.data_blocks[data_block].elems = <<>> THEN Panic(s)
    ELSE
        LET elem_to_move == Last(s.data_blocks[data_block].elems) IN
        insert_cascade(
            [s EXCEPT !.data_blocks[data_block] = VecPop(@),
                      !.data_blocks[data_block + 1] =
                          VecInsert(@, 0, elem_to_move)],
            data_block - 1, a)

\* insert once grow() has made room and locate(index) = (a, b) is known
insert_at(s, a, b, element) ==
    LET s1 == IF s.panicked THEN s
              ELSE insert_cascade(s, Len(s.data_blocks) - 1, a)
    IN  IF s1.panicked THEN s1
        ELSE IF a >= Len(s1.data_blocks) THEN Panic(s1)
        ELSE IF b > Len(s1.data_blocks[a + 1].elems) THEN Panic(s1)
        ELSE
            LET cap == s1.data_blocks[a + 1].cap
                s2 == [s1 EXCEPT !.data_blocks[a + 1] =
                                     VecInsert(@, b, element)]
            IN  IF cap # s2.data_blocks[a + 1].cap THEN Panic(s2) ELSE s2

insert(s0, index, element) ==
    IF LocatePanics(index) THEN Panic(s0)
    ELSE insert_at(grow(s0), locate(index)[1], locate(index)[2], element)

\* the loop of remove taking the last element of each block, not the first
RECURSIVE remove_cascade_last(_, _)
remove_cascade_last(s, block) ==
    IF block >= Len(s.data_blocks) \/ s.panicked THEN s
    ELSE IF s.data_blocks[block + 1].elems = <<>> THEN Panic(s)
    ELSE
        LET temp == Last(s.data_blocks[block + 1].elems) IN
        remove_cascade_last(
            [s EXCEPT !.data_blocks[block + 1] = VecPop(@),
                      !.data_blocks[block] = VecPush(@, temp)],
            block + 1)

\* the front-to-back loop of remove: block runs from a + 1 up to the last
\* block and moves its first element to the end of the block before it
RECURSIVE remove_cascade(_, _)
remove_cascade(s, block) ==
    IF block >= Len(s.data_blocks) \/ s.panicked THEN s
    ELSE IF s.data_blocks[block + 1].elems = <<>> THEN Panic(s)
    ELSE
        LET temp == s.data_blocks[block + 1].elems[1] IN
        remove_cascade(
            [s EXCEPT !.data_blocks[block + 1] = VecRemove(@, 0),
                      !.data_blocks[block] = VecPush(@, temp)],
            block + 1)

\* remove once locate(index) = (a, b) is known
remove_at(s, a, b) ==
    IF a >= Len(s.data_blocks) THEN Panic(s)
    ELSE IF b >= Len(s.data_blocks[a + 1].elems) THEN Panic(s)
    ELSE
        LET result == s.data_blocks[a + 1].elems[b + 1]
            s1 == [s EXCEPT !.data_blocks[a + 1] = VecRemove(@, b)]
            s2 == remove_cascade(s1, a + 1)
        IN  IF s2.panicked THEN s2
            ELSE [shrink(s2) EXCEPT !.ret = << result >>]

remove(s, index) ==
    IF LocatePanics(index) THEN Panic(s)
    ELSE remove_at(s, locate(index)[1], locate(index)[2])

\* swap_replace once locate(index) = (a, b) is known
swap_replace_at(s, a, b, replacement) ==
    IF a >= Len(s.data_blocks) THEN Panic(s)
    ELSE IF s.data_blocks[a + 1].elems = <<>> THEN Panic(s)
    ELSE
        LET last == Last(s.data_blocks[a + 1].elems)
            v1 == VecPush(VecPop(s.data_blocks[a + 1]), replacement)
        IN  IF b >= Len(v1.elems)
            THEN Panic([s EXCEPT !.data_blocks[a + 1] = v1])
            ELSE
                LET result == v1.elems[b + 1]
                    v2 == VecPush(VecSwapRemove(v1, b), last)
                IN  [s EXCEPT !.data_blocks[a + 1] = v2,
                              !.ret = << result >>]

swap_replace(s, index, replacement) ==
    IF LocatePanics(index) THEN Panic(s)
    ELSE swap_replace_at(s, locate(index)[1], locate(index)[2], replacement)

\* self.data_blocks[a][b]
index_at(s, a, b) ==
    IF a >= Len(s.data_blocks) THEN Panic(s)
    ELSE IF b >= Len(s.data_blocks[a + 1].elems) THEN Panic(s)
    ELSE [s EXCEPT !.ret = << s.data_blocks[a + 1].elems[b + 1] >>]

\* the indexing operator a[i]
index(s, i) ==
    IF LocatePanics(i) THEN Panic(s)
    ELSE index_at(s, locate(i)[1], locate(i)[2])

\* the mutable indexing operator a[i]
index_mut(s, i) ==
    IF LocatePanics(i) THEN Panic(s)
    ELSE index_at(s, locate(i)[1], locate(i)[2])

RECURSIVE SumLen(_)
SumLen(blocks) ==
    IF blocks = <<>> THEN 0
    ELSE SumLen(Front(blocks)) + Len(Last(blocks).elems)

\* TRUE iff simple_sanity_check() returns without a failed assertion
simple_sanity_check(s) ==
    \/ is_empty(s)
    \/ /\ s.len = SumLen(s.data_blocks)
       /\ \A idx \in 0 .. (Len(s.data_blocks) - 2) :
              s.data_blocks[idx + 1].cap = Len(s.data_blocks[idx + 1].elems)

\* derive(Clone): every field is cloned, the blocks by Vec::clone
clone(s) ==
    [s EXCEPT !.data_blocks =
                  [i \in 1 .. Len(s.data_blocks) |-> VecClone(s.data_blocks[i])],
              !.empty_data_block =
                  [i \in 1 .. Len(s.empty_data_block) |->
                      VecClone(s.empty_data_block[i])]]

\* a container as a call finds it: nothing returned, allocated or dropped yet
BeforeCall(s) ==
    [s EXCEPT !.ret = <<>>, !.allocated = <<>>, !.freed = <<>>]

\* the container after pushing the elements of xs in order
RECURSIVE push_all(_, _)
push_all(s, xs) ==
    IF xs = <<>> \/ s.panicked THEN s
    ELSE push_all(push(BeforeCall(s), xs[1]), Tail(xs))

\* ---------------------------------------------------------------- calls
\* One public call on a container.
Call(s, o) ==
    CASE o.name = "push" -> push(s, o.value)
      [] o.name = "pop"  -> pop(s)
      [] o.name = "insert" -> insert(s, o.index, o.value)
      [] o.name = "remove" -> remove(s, o.index)
      [] o.name = "swap_replace" -> swap_replace(s, o.index, o.value)
      [] o.name = "index" -> index(s, o.index)
      [] o.name = "index_mut" -> index_mut(s, o.index)

\* what the reference Vec holds after the same call
VecAfter(v, o) ==
    CASE o.name = "push" -> Append(v, o.value)
      [] o.name = "pop"  -> IF v = <<>> THEN v ELSE Front(v)
      [] o.name = "insert" ->
            SubSeq(v, 1, o.index) \o << o.value >>
            \o SubSeq(v, o.index + 1, Len(v))
      [] o.name = "remove" ->
            IF o.index >= Len(v) THEN v
            ELSE SubSeq(v, 1, o.index) \o SubSeq(v, o.index + 2, Len(v))
      [] o.name = "swap_replace" -> [v EXCEPT ![o.index + 1] = o.value]
      [] o.name \in {"index", "index_mut"} -> v

\* what the reference Vec returns for the same call; it panics on an index
\* out of range and returns nothing
VecReturn(v, o) ==
    CASE o.name = "push" -> <<>>
      [] o.name = "pop"  -> IF v = <<>> THEN <<>> ELSE << Last(v) >>
      [] o.name = "insert" -> <<>>
      [] o.name \in {"remove", "swap_replace", "index", "index_mut"} ->
            IF o.index >= Len(v) THEN <<>> ELSE << v[o.index + 1] >>

\* the reference Vec panicked in the last call: these calls return an element
\* unless the index was out of range
VecPanicked ==
    /\ op.name \in {"remove", "swap_replace", "index", "index_mut"}
    /\ vec_ret = <<>>

\* One call made on the container and on the reference Vec, and on the clone
\* when there is one.
DoCall(o) ==
    /\ ~panicked
    /\ ~VecPanicked
    /\ copy # <<>> => ~copy[1].panicked
    /\ \E r \in { Call(self, o) } :
        /\ data_blocks' = r.data_blocks
        /\ len' = r.len
        /\ s_odd' = r.s_odd
        /\ len_last_super' = r.len_last_super
        /\ cap_last_super' = r.cap_last_super
        /\ empty_data_block' = r.empty_data_block
        /\ ret' = r.ret
        /\ allocated' = r.allocated
        /\ freed' = r.freed
        /\ panicked' = r.panicked
        /\ vec' = VecAfter(vec, o)
        /\ vec_ret' = VecReturn(vec, o)
        /\ op' = o
        /\ copy' = IF copy = <<>> THEN <<>>
                   ELSE << Call(BeforeCall(copy[1]), o) >>
    /\ UNCHANGED overflow_checks

\* no run of alternating calls is being followed
NoChurn == [last |-> "none", allocs |-> 0, frees |-> 0, retired |-> FALSE]

Do(o) == DoCall(o) /\ UNCHANGED churn

InitFields ==
    /\ data_blocks = Default.data_blocks
    /\ len = Default.len
    /\ s_odd = Default.s_odd
    /\ len_last_super = Default.len_last_super
    /\ cap_last_super = Default.cap_last_super
    /\ empty_data_block = Default.empty_data_block
    /\ vec = <<>>
    /\ op = [name |-> "default", index |-> 0, value |-> 0]
    /\ ret = <<>>
    /\ vec_ret = <<>>
    /\ allocated = <<>>
    /\ freed = <<>>
    /\ panicked = FALSE
    /\ copy = <<>>
    /\ churn = NoChurn

\* the build of the tests: overflow checks are on
Init == InitFields /\ overflow_checks = TRUE

\* either build profile
InitAnyBuild == InitFields /\ overflow_checks \in BOOLEAN

Push ==
    \E value \in Values :
        /\ len < MaxLen
        /\ Do([name |-> "push", index |-> 0, value |-> value])

Pop == Do([name |-> "pop", index |-> 0, value |-> 0])

Insert ==
    \E idx \in 0 .. len : \E value \in Values :
        /\ len < MaxLen
        /\ Do([name |-> "insert", index |-> idx, value |-> value])

Remove ==
    \E idx \in 0 .. (len - 1) :
        Do([name |-> "remove", index |-> idx, value |-> 0])

SwapReplace ==
    \E idx \in 0 .. (len - 1) : \E value \in Values :
        Do([name |-> "swap_replace", index |-> idx, value |-> value])

Next == Push \/ Pop \/ Insert \/ Remove

Spec == Init /\ [][Next]_vars

\* The same calls with one element value, up to a larger length: the blocks'
\* sizes and the counters do not depend on the values stored.
ShapePush ==
    /\ len < MaxShapeLen
    /\ Do([name |-> "push", index |-> 0, value |-> 0])

ShapeInsert ==
    \E idx \in 0 .. len :
        /\ len < MaxShapeLen
        /\ Do([name |-> "insert", index |-> idx, value |-> 0])

NextShape == ShapePush \/ Pop \/ ShapeInsert \/ Remove

SpecShape == Init /\ [][NextShape]_vars

\* The calls with the allocations and frees of the current run of strictly
\* alternating push and pop calls added up in churn: a push after a pop, or a
\* pop after a push, continues the run, any other push or pop starts a run
\* with itself, and insert and remove end it.
Track(name) ==
    LET continues == \/ name = "push" /\ churn.last = "pop"
                     \/ name = "pop" /\ churn.last = "push"
    IN  churn' = [last    |-> name,
                  allocs  |-> (IF continues THEN churn.allocs ELSE 0)
                              + Len(allocated'),
                  frees   |-> (IF continues THEN churn.frees ELSE 0)
                              + Len(freed'),
                  retired |-> name = "pop"
                              /\ Len(data_blocks') < Len(data_blocks)]

ChurnPush ==
    /\ len < MaxChurnLen
    /\ DoCall([name |-> "push", index |-> 0, value |-> 0])
    /\ Track("push")

ChurnPop ==
    /\ DoCall([name |-> "pop", index |-> 0, value |-> 0])
    /\ Track("pop")

ChurnInsert ==
    \E idx \in 0 .. len :
        /\ len < MaxChurnLen
        /\ DoCall([name |-> "insert", index |-> idx, value |-> 0])
        /\ churn' = NoChurn

ChurnRemove ==
    \E idx \in 0 .. (len - 1) :
        /\ DoCall([name |-> "remove", index |-> idx, value |-> 0])
        /\ churn' = NoChurn

NextChurn == ChurnPush \/ ChurnPop \/ ChurnInsert \/ ChurnRemove

SpecChurn == Init /\ [][NextChurn]_vars

\* clone() once, at any moment; from then on every call is made on the
\* original and on the clone, and the indexing operator is called as well.
Clone ==
    /\ ~panicked
    /\ copy = <<>>
    /\ copy' = << clone(self) >>
    /\ op' = [name |-> "clone", index |-> 0, value |-> 0]
    /\ ret' = <<>>
    /\ vec_ret' = <<>>
    /\ allocated' = <<>>
    /\ freed' = <<>>
    /\ UNCHANGED <<data_blocks, len, s_odd, len_last_super, cap_last_super,
                   empty_data_block, vec, panicked, overflow_checks, churn>>

Index ==
    \E idx \in 0 .. (len - 1) :
        Do([name |-> "index", index |-> idx, value |-> 0])

ClonePush ==
    \E value \in Values :
        /\ len < MaxCloneLen
        /\ Do([name |-> "push", index |-> 0, value |-> value])

CloneInsert ==
    \E idx \in 0 .. len : \E value \in Values :
        /\ len < MaxCloneLen
        /\ Do([name |-> "insert", index |-> idx, value |-> value])

NextClone == ClonePush \/ Pop \/ CloneInsert \/ Remove \/ Clone \/ Index

SpecClone == Init /\ [][NextClone]_vars

\* The calls with indices out of range as well, in either build: any index
\* from len() up to the largest usize.
OobPush ==
    \E value \in Values :
        /\ len < MaxOobLen
        /\ Do([name |-> "push", index |-> 0, value |-> value])

OobInsert ==
    \E idx \in 0 .. len : \E value \in Values :
        /\ len < MaxOobLen
        /\ Do([name |-> "insert", index |-> idx, value |-> value])

IndexOob ==
    \E idx \in len .. (UsizeModulus - 1) :
        Do([name |-> "index", index |-> idx, value |-> 0])

IndexMutOob ==
    \E idx \in len .. (UsizeModulus - 1) :
        Do([name |-> "index_mut", index |-> idx, value |-> 0])

RemoveOob ==
    \E idx \in len .. (UsizeModulus - 1) :
        Do([name |-> "remove", index |-> idx, value |-> 0])

NextOob ==
    \/ OobPush \/ Pop \/ OobInsert \/ Remove \/ Index
    \/ IndexOob \/ IndexMutOob \/ RemoveOob

SpecOob == InitAnyBuild /\ [][NextOob]_vars

\* the same calls plus swap_replace
SwapPush ==
    \E value \in Values :
        /\ len < MaxSwapLen
        /\ Do([name |-> "push", index |-> 0, value |-> value])

SwapInsert ==
    \E idx \in 0 .. len : \E value \in Values :
        /\ len < MaxSwapLen
        /\ Do([name |-> "insert", index |-> idx, value |-> value])

NextSwap == SwapPush \/ Pop \/ SwapInsert \/ Remove \/ SwapReplace

SpecSwap == Init /\ [][NextSwap]_vars

\* ---------------------------------------------------------------- claims

\* The layout of the superblocks: SB[k] has 2^floor(k/2) data blocks of
\* 2^ceil(k/2) slots each.  RefWalk lays the blocks out one superblock after
\* the other: i slots remain to skip, `before` data blocks precede SB[k].
RECURSIVE RefWalk(_, _, _)
RefWalk(i, k, before) ==
    IF i < Pow2(k \div 2) * Pow2((k + 1) \div 2)
    THEN << before + (i \div Pow2((k + 1) \div 2)), i % Pow2((k + 1) \div 2) >>
    ELSE RefWalk(i - Pow2(k \div 2) * Pow2((k + 1) \div 2), k + 1,
                 before + Pow2(k \div 2))

\* the slot of element i in that layout
RefLocate(i) == RefWalk(i, 0, 0)

\* the capacity the layout gives to data block n (0-based)
RECURSIVE RefBlockCapFrom(_, _)
RefBlockCapFrom(n, k) ==
    IF n < Pow2(k \div 2) THEN Pow2((k + 1) \div 2)
    ELSE RefBlockCapFrom(n - Pow2(k \div 2), k + 1)

RefBlockCap(n) == RefBlockCapFrom(n, 0)

\* the number of superblocks that n data blocks open
RECURSIVE RefSupersFrom(_, _)
RefSupersFrom(n, k) ==
    IF n <= 0 THEN k ELSE RefSupersFrom(n - Pow2(k \div 2), k + 1)

RefSupers(n) == RefSupersFrom(n, 0)

\* slot x comes before slot y in storage order
SlotBefore(x, y) == x[1] < y[1] \/ (x[1] = y[1] /\ x[2] < y[2])

\* C1: after every push and every pop (a pop of the empty container included)
\* len() equals the reference Vec's length and the call returned what the
\* reference returned.
C1_PushPopParity ==
    op.name \in {"push", "pop"} =>
        /\ ~panicked
        /\ len_of(self) = Len(vec)
        /\ ret = vec_ret

\* a pop that took the only element of the fourth data block
C1_Witness ==
    /\ op.name = "pop"
    /\ ret = << 1 >>
    /\ len = 5
    /\ Len(vec) = 5

\* a pop of the empty container after it had been filled and emptied
C1_WitnessEmpty ==
    /\ op.name = "pop"
    /\ ret = <<>>
    /\ len = 0
    /\ cap_last_super = 0

\* C2: for every i < len() the indexing operator returns the reference Vec's
\* element i.
C2_IndexParity ==
    \A i \in 0 .. (len - 1) :
        /\ ~index(self, i).panicked
        /\ index(self, i).ret = << vec[i + 1] >>

\* eight elements, the last in a block of the fourth superblock, and the
\* neighbours of the superblock boundaries differ
C2_Witness ==
    /\ len = MaxLen
    /\ op.name = "push"
    /\ vec[8] # vec[7]
    /\ vec[4] # vec[3]
    /\ index(self, 7).ret = << vec[8] >>

\* C3: every remove returns what the reference Vec's remove returns, and after
\* every insert, remove and push iter() yields the reference Vec's contents.
C3_InsertRemoveParity ==
    /\ op.name = "remove" => (~panicked /\ ret = vec_ret)
    /\ op.name \in {"insert", "remove", "push"} =>
           (~panicked /\ iter(self) = vec)

\* a remove in the first block that shifted elements through four blocks
C3_Witness ==
    /\ op.name = "remove"
    /\ op.index = 0
    /\ ret = << 1 >>
    /\ len = 6
    /\ vec = <<0, 1, 0, 1, 1, 0>>

\* an insert in the second block that opened a new block at the end
C3_WitnessInsert ==
    /\ op.name = "insert"
    /\ op.index = 1
    /\ op.value = 1
    /\ len = 8
    /\ allocated # <<>>

\* C4: the occupied lengths of the data blocks sum to len(), every data block
\* but the last is full, and simple_sanity_check() does not fail.
C4_Sanity ==
    /\ SumLen(data_blocks) = len
    /\ \A i \in 1 .. (Len(data_blocks) - 1) :
           Len(data_blocks[i].elems) = data_blocks[i].cap
    /\ simple_sanity_check(self)

\* a remove in the middle that left four full blocks and a partial last one
C4_Witness ==
    /\ op.name = "remove"
    /\ op.index = 3
    /\ Len(data_blocks) = 4
    /\ Len(Last(data_blocks).elems) = 1
    /\ empty_data_block # <<>>

\* C5: swap_replace(index, replacement) with index < len() returns the
\* element that was at index and leaves replacement there, len() and all
\* other elements unchanged (the reference Vec holds exactly that).
C5_SwapReplace ==
    op.name = "swap_replace" =>
        /\ ~panicked
        /\ ret = vec_ret
        /\ len = Len(vec)
        /\ iter(self) = vec

\* the unused slots of the last data block
UnusedTail ==
    IF data_blocks = <<>> THEN 0
    ELSE Last(data_blocks).cap - Len(Last(data_blocks).elems)

\* the capacity of the spare block, 0 when none is held
SpareCap ==
    IF empty_data_block = <<>> THEN 0 ELSE empty_data_block[1].cap

\* C6: capacity() is len() plus the unused tail of the last data block plus
\* the capacity of the spare block when one is held.
C6_Capacity == capacity(self) = len + UnusedTail + SpareCap

\* C7: a push or insert allocates a data block iff len() = capacity() right
\* before the call; no other call allocates.
C7_AllocIffFull ==
    [][ /\ op'.name \in {"push", "insert"} =>
              ((allocated' # <<>>) <=> (len = capacity(self)))
        /\ op'.name \notin {"push", "insert"} => allocated' = <<>> ]_vars

\* the data blocks and the spare that hold no element
EmptyBlocks(s) ==
    { i \in 1 .. Len(s.data_blocks) : s.data_blocks[i].elems = <<>> }
    \cup { Len(s.data_blocks) + i : i \in
             { j \in 1 .. Len(s.empty_data_block) :
                 s.empty_data_block[j].elems = <<>> } }

\* the call being made takes the only element out of the last data block
EmptiesLast ==
    /\ op'.name \in {"pop", "remove"}
    /\ len > 0
    /\ Len(Last(data_blocks).elems) = 1

\* C8: a call drops a data block iff it is a pop or remove that empties the
\* last data block while a spare is held; the dropped block is that spare, the
\* emptied block becomes the spare, and never more than one empty block is held.
C8_FreeIffTwoEmpty ==
    [][ /\ (freed' # <<>>) <=> (EmptiesLast /\ empty_data_block # <<>>)
        /\ freed' # <<>> => freed' = empty_data_block
        /\ EmptiesLast =>
              /\ empty_data_block' =
                     << [Last(data_blocks) EXCEPT !.elems = <<>>] >>
              /\ Len(data_blocks') = Len(data_blocks) - 1
        /\ Cardinality(EmptyBlocks(self)') <= 1 ]_vars

\* a remove emptied the last block while a spare was held and dropped the spare
C8_Witness ==
    /\ op.name = "remove"
    /\ freed # <<>>
    /\ freed[1].cap = 4
    /\ empty_data_block # <<>>
    /\ empty_data_block[1].cap = 2
    /\ len = 5

\* C9: with len() >= 1 the capacity beyond the length is within a constant
\* multiple of the square root of the length:
\* (capacity() - len())^2 <= 16 * len().
C9_SqrtOverhead ==
    len >= 1 =>
        (capacity(self) - len) * (capacity(self) - len) <= 16 * len

\* the first element of the sixth superblock, in a block of eight slots
C9_Witness ==
    /\ len = 32
    /\ capacity(self) - len = 7
    /\ Len(data_blocks) = 11

\* C10: a clone has the contents of the original and, driven by the same
\* calls, keeps returning what the original returns, with every block but the
\* last full and the indexing operator agreeing with its contents.
C10_CloneEquivalent ==
    copy # <<>> =>
        /\ ~copy[1].panicked
        /\ copy[1].len = len
        /\ iter(copy[1]) = iter(self)
        /\ copy[1].ret = ret
        /\ simple_sanity_check(copy[1])
        /\ \A i \in 0 .. (copy[1].len - 1) :
               index(copy[1], i).ret = index(self, i).ret

\* C11: the indexing operators and remove, called with an index >= len(),
\* panic and return no element.
C11_OutOfRangePanics ==
    [][ (op'.name \in {"index", "index_mut", "remove"} /\ op'.index >= len)
            => (panicked' /\ ret' = <<>>) ]_vars

\* C12: for every index of the usize range, the largest included, locate
\* computes its pair without a step that overflows or underflows.
C12_LocateDefined ==
    op.name \in {"index", "index_mut", "remove", "insert"} =>
        ~locate_overflows(op.index)

\* C13: last() is None when len() = 0 and the element at index len() - 1
\* otherwise; no data block of the list is empty, and the list is empty
\* exactly when len() = 0.
C13_Last ==
    /\ last_of(self) = IF len = 0 THEN <<>> ELSE << vec[len] >>
    /\ \A i \in 1 .. Len(data_blocks) : data_blocks[i].elems # <<>>
    /\ (data_blocks = <<>>) <=> (len = 0)

\* a remove emptied the fourth data block; last() is the end of the third
C13_Witness ==
    /\ op.name = "remove"
    /\ op.index = 1
    /\ len = 5
    /\ Len(data_blocks) = 3
    /\ last_of(self) = << 1 >>
    /\ vec[4] = 0

\* C14: pushing the elements that iteration yields, in order, into a fresh
\* container gives the same len(), the same contents in the same order and
\* the same number of data blocks with the same occupancies.
C14_RoundTrip ==
    /\ ~push_all(Default, into_iter(self)).panicked
    /\ push_all(Default, into_iter(self)).len = len
    /\ iter(push_all(Default, into_iter(self))) = iter(self)
    /\ Occupancies(push_all(Default, into_iter(self))) = Occupancies(self)

\* a container that shrank from eight elements, insert and remove among its
\* calls, and holds a spare that the rebuilt one does not have
C14_Witness ==
    /\ len = 6
    /\ op.name = "remove"
    /\ op.index = 2
    /\ iter(self) = <<1, 0, 0, 1, 1, 0>>
    /\ empty_data_block # <<>>
    /\ push_all(Default, into_iter(self)).empty_data_block = <<>>
    /\ Occupancies(self) = <<1, 2, 2, 1>>

\* C15: for every index below the largest usize, locate gives the slot of
\* the superblock layout (whole blocks before it, position inside its block),
\* and the slot of the next index is the next slot in storage order, so
\* locate is injective.
C15_LocateLayout ==
    (op.name \in {"index", "index_mut", "remove", "insert"}
        /\ op.index < UsizeModulus - 1) =>
        /\ locate(op.index) = RefLocate(op.index)
        /\ locate(op.index)[2] < RefBlockCap(locate(op.index)[1])
        /\ op.index + 1 < UsizeModulus - 1 =>
               /\ SlotBefore(locate(op.index), locate(op.index + 1))
               /\ locate(op.index + 1) \in
                      { << locate(op.index)[1], locate(op.index)[2] + 1 >>,
                        << locate(op.index)[1] + 1, 0 >> }

\* locate applied to the last index before the largest usize, far beyond the
\* container's length
C15_Witness ==
    /\ op.name = "index"
    /\ op.index = UsizeModulus - 2
    /\ locate(op.index)[1] > 20
    /\ panicked
    /\ len = 2

\* C16: for every i < len() locate(i) is a slot inside the block list and
\* inside its block's occupied part, and holds element i of the iteration;
\* with len() >= 1 the list has locate(len - 1).block + 1 blocks and the last
\* block holds locate(len - 1).offset + 1 elements.
C16_LockStep ==
    /\ \A i \in 0 .. (len - 1) :
           /\ locate(i)[1] < Len(data_blocks)
           /\ locate(i)[2] < Len(data_blocks[locate(i)[1] + 1].elems)
           /\ data_blocks[locate(i)[1] + 1].elems[locate(i)[2] + 1]
                  = iter(self)[i + 1]
    /\ len >= 1 =>
           /\ Len(data_blocks) = locate(len - 1)[1] + 1
           /\ Len(Last(data_blocks).elems) = locate(len - 1)[2] + 1

\* a push that crossed into the fourth superblock with the block retired when
\* the container shrank out of it
C16_Witness ==
    /\ op.name = "push"
    /\ len = 8
    /\ allocated = <<>>
    /\ Len(data_blocks) = 5
    /\ Last(data_blocks).cap = 4
    /\ ~s_odd

\* C17: a spare block that is held is empty and has the capacity of the next
\* data block, both as the superblock layout prescribes it and as grow() would
\* allocate it; and whenever the block list is empty a spare is held.
C17_SpareFits ==
    /\ empty_data_block # <<>> =>
           /\ empty_data_block[1].elems = <<>>
           /\ empty_data_block[1].cap = RefBlockCap(Len(data_blocks))
           /\ data_blocks # <<>> =>
                  empty_data_block[1].cap = next_block_cap(self)
    /\ data_blocks = <<>> => empty_data_block # <<>>

\* the spare is the first block of the sixth superblock, retired when the
\* container shrank to 31 elements
C17_Witness ==
    /\ len = 31
    /\ empty_data_block # <<>>
    /\ empty_data_block[1].cap = 8
    /\ Last(data_blocks).cap = 4
    /\ op.name \in {"pop", "remove"}

\* the container was emptied and holds the first block as its spare
C17_WitnessEmptied ==
    /\ len = 0
    /\ op.name = "remove"
    /\ empty_data_block # <<>>
    /\ cap_last_super = 0

\* C18: s_odd is true iff the number of superblocks that the data blocks of
\* the list open is odd.
C18_Parity == s_odd <=> (RefSupers(Len(data_blocks)) % 2 = 1)

\* the data blocks a container owns, the spare included
OwnedBlocks(s) ==
    { s.data_blocks[i] : i \in 1 .. Len(s.data_blocks) }
    \cup { s.empty_data_block[i] : i \in 1 .. Len(s.empty_data_block) }

\* C19: insert(index, v) with index <= len() never lets a data block hold more
\* than its capacity, so no block is reallocated and the assert_eq holds.  A
\* Vec that is pushed beyond its capacity gets a larger buffer and keeps it,
\* so every block must end the call with the capacity it had before the call
\* or, for the block grow() added, at its allocation.
C19_InsertInPlace ==
    [][ (op'.name = "insert" /\ op'.index <= len) =>
            /\ ~panicked'
            /\ \A i \in 1 .. Len(data_blocks') :
                   /\ Len(data_blocks'[i].elems) <= data_blocks'[i].cap
                   /\ \E old \in OwnedBlocks(self)
                                 \cup { allocated'[j] :
                                          j \in 1 .. Len(allocated') } :
                          /\ old.id = data_blocks'[i].id
                          /\ old.cap = data_blocks'[i].cap
            /\ \A i \in 1 .. Len(data_blocks) :
                   /\ data_blocks'[i].id = data_blocks[i].id
                   /\ data_blocks'[i].cap = data_blocks[i].cap ]_vars

\* an insert at the front that moved an element through all eleven blocks
\* into a block allocated by the call
C19_Witness ==
    /\ op.name = "insert"
    /\ op.index = 0
    /\ len = 32
    /\ Len(data_blocks) = 11
    /\ allocated # <<>>
    /\ ~panicked

\* C20: in a run of strictly alternating push and pop calls, started in any
\* reachable state with either call, at most one data block is allocated and
\* at most one is freed; and the push after a pop that retired the last block
\* takes the spare that pop left and allocates nothing.
C20_ChurnDamped ==
    /\ [](churn.allocs <= 1 /\ churn.frees <= 1)
    /\ [][ (churn.retired /\ op'.name = "push") =>
               /\ allocated' = <<>>
               /\ empty_data_block # <<>>
               /\ Len(data_blocks') = Len(data_blocks) + 1
               /\ Last(data_blocks').id = empty_data_block[1].id
               /\ empty_data_block' = <<>> ]_vars

\* push allocated a block, pop retired it, and this push took it back
C20_Witness ==
    /\ op.name = "push"
    /\ churn.last = "push"
    /\ churn.allocs = 1
    /\ allocated = <<>>
    /\ empty_data_block = <<>>
    /\ Len(data_blocks) > 1
    /\ Len(Last(data_blocks).elems) = 1

\* pop freed the old spare and retired the last block, and this push took the
\* retired block back
C20_WitnessFreed ==
    /\ op.name = "push"
    /\ churn.last = "push"
    /\ churn.frees = 1
    /\ churn.allocs = 0
    /\ allocated = <<>>
    /\ Len(data_blocks) > 1
    /\ Len(Last(data_blocks).elems) = 1

TypeOK ==
    /\ len \in 0 .. MaxShapeLen
    /\ ~panicked
    /\ iter(self) = vec
====
